---------------------------- MODULE Spec2Model ----------------------------
(***************************************************************************)
(* A model of the retrieval core of src/ModuleA/crawlers/news.py:          *)
(* InvertedIndex (tokenize, build_index, get_postings), the two retrieval  *)
(* models TFIDFRetrieval and BM25Retrieval, and CLIRSystem                 *)
(* (scrape_and_index, translate_query, search).                            *)
(*                                                                         *)
(* Text is a TLA+ string; a character is a string of length one.           *)
(* Floating-point scores are fixed-point integers in units of 1/Scale;     *)
(* avg_doc_length, a float quotient of two integers, is the exact          *)
(* fraction <<numerator, denominator>>.                                    *)
(***************************************************************************)
EXTENDS Integers, Sequences, FiniteSets, TLC

(***************************************************************************)
(* Bounds of the model.                                                    *)
(***************************************************************************)
MaxDocs == 2
MaxHistory == 1
MaxTopK == 2

(***************************************************************************)
(* Characters.  str.lower() maps the upper-case letters to the lower-case  *)
(* ones; the regular expression class \w holds the letters, the digits and *)
(* the underscore; \s is white space.                                      *)
(***************************************************************************)
UpperLetters == "ABCDEFGHIJKLMNOPQRSTUVWXYZ"
LowerLetters == "abcdefghijklmnopqrstuvwxyz"
DigitChars == {"0", "1", "2", "3", "4", "5", "6", "7", "8", "9"}
SpaceChars == {" "}

Ch(s, i) == SubSeq(s, i, i)

Letters == {Ch(UpperLetters, i) : i \in 1..Len(UpperLetters)}
             \cup {Ch(LowerLetters, i) : i \in 1..Len(LowerLetters)}

\* the lower-case letter of each upper-case letter
LowerOf ==
    [c \in {Ch(UpperLetters, i) : i \in 1..Len(UpperLetters)} |->
        Ch(LowerLetters, CHOOSE i \in 1..Len(UpperLetters) : Ch(UpperLetters, i) = c)]

CharLower(c) == IF c \in DOMAIN LowerOf THEN LowerOf[c] ELSE c

WordChars == Letters \cup DigitChars \cup {"_"}

IsWordChar(c) == c \in WordChars

\* text.lower(), by halves (the texts are too long for a recursion one
\* character at a time)
RECURSIVE Lower(_)
Lower(text) ==
    IF Len(text) = 0 THEN ""
    ELSE IF Len(text) = 1 THEN CharLower(text)
    ELSE LET h == Len(text) \div 2
         IN Lower(SubSeq(text, 1, h)) \o Lower(SubSeq(text, h + 1, Len(text)))

\* re.sub(r'[^\w\s]', ' ', text), by halves
SubChar(c) == IF IsWordChar(c) \/ c \in SpaceChars THEN c ELSE " "

RECURSIVE SubNonWord(_)
SubNonWord(text) ==
    IF Len(text) = 0 THEN ""
    ELSE IF Len(text) = 1 THEN SubChar(text)
    ELSE LET h == Len(text) \div 2
         IN SubNonWord(SubSeq(text, 1, h)) \o SubNonWord(SubSeq(text, h + 1, Len(text)))

\* text.split(): the maximal runs of non-space characters, in order
Split(text) ==
    LET n == Len(text)
        sp == [i \in 0..(n + 1) |-> i = 0 \/ i = n + 1 \/ Ch(text, i) \in SpaceChars]
        starts == {i \in 1..n : ~sp[i] /\ sp[i - 1]}
        ends == {i \in 1..n : ~sp[i] /\ sp[i + 1]}
        startRank == [s \in starts |-> Cardinality({r \in starts : r <= s})]
        endRank == [e \in ends |-> Cardinality({r \in ends : r <= e})]
    IN [j \in 1..Cardinality(starts) |->
          SubSeq(text, CHOOSE s \in starts : startRank[s] = j,
                       CHOOSE e \in ends : endRank[e] = j)]

\* [t for t in tokens if len(t) > 2]
ShortLen == 2
LongTokens(tokens) == SelectSeq(tokens, LAMBDA t : Len(t) > ShortLen)

Tokens(text) == LongTokens(Split(SubNonWord(Lower(text))))

\* the texts searched for, and what the translator may return
QueryPool == {"cat", "Mouse, dog zebra", "an"}
TranslationPool == {"cat"}

\* the tokens of those texts, computed once
QueryTokens == [text \in QueryPool \cup TranslationPool |-> Tokens(text)]

tokenize(text) ==
    IF text \in DOMAIN QueryTokens THEN QueryTokens[text] ELSE Tokens(text)

(***************************************************************************)
(* Documents.                                                              *)
(***************************************************************************)
Doc(title, body, url) ==
    [title |-> title, body |-> body, url |-> url, date |-> "", language |-> "en"]

DocPool ==
    { Doc("Cat", "dog", "u1"),
      Doc("cat cat", "Mouse!", "u2"),
      Doc("dog", "mouse-mouse", "u3"),
      Doc("An", "", "u4") }

\* the batches of at most MaxDocs documents
Batches == UNION {[1..n -> DocPool] : n \in 0..MaxDocs}

(***************************************************************************)
(* CLIRSystem._generate_sample_data: the five sample documents, used when   *)
(* the scraper returns no document.                                        *)
(***************************************************************************)
SampleDoc(title, body, url, date) ==
    [title |-> title, body |-> body, url |-> url, date |-> date, language |-> "en"]

SampleData ==
    <<
      SampleDoc("Bangladesh Economy Shows Strong Growth",
        "The Bangladesh economy continues to grow at a robust pace, driven by strong export performance and remittance inflows. The GDP growth rate reached 7.2% this year, outpacing many regional competitors. Key sectors like textiles, pharmaceuticals, and IT services have contributed significantly to this expansion.",
        "https://www.thedailystar.net/business/economy/news/bangladesh-economy-growth-2024",
        "2024-12-15"),
      SampleDoc("Dhaka Traffic Management System Upgraded",
        "Dhaka city authorities have implemented a new smart traffic management system to reduce congestion in the capital. The system uses AI-powered cameras and sensors to monitor traffic flow in real-time. Initial results show a 15% reduction in average commute times during peak hours.",
        "https://www.thedailystar.net/city/news/dhaka-traffic-system-2024",
        "2024-12-14"),
      SampleDoc("Educational Reform Initiatives Launched",
        "The government has launched comprehensive educational reform initiatives focusing on digital learning and skills development for students across Bangladesh. The program includes teacher training, infrastructure upgrades, and curriculum modernization to prepare students for the digital economy.",
        "https://www.thedailystar.net/education/news/education-reform-2024",
        "2024-12-13"),
      SampleDoc("Renewable Energy Projects Gain Momentum",
        "Bangladesh is accelerating its transition to renewable energy with several new solar and wind projects announced this quarter. The government aims to generate 40% of electricity from renewable sources by 2030. International partnerships are providing both funding and technical expertise.",
        "https://www.thedailystar.net/environment/news/renewable-energy-bangladesh-2024",
        "2024-12-12"),
      SampleDoc("Healthcare Infrastructure Expansion Announced",
        "Major healthcare infrastructure expansion plans were unveiled today, including 50 new hospitals and 200 community health centers across rural areas. The initiative aims to improve healthcare access for underserved populations and reduce the urban-rural healthcare gap.",
        "https://www.thedailystar.net/health/news/healthcare-expansion-2024",
        "2024-12-11") >>

(***************************************************************************)
(* InvertedIndex.  An index value is the record of the object's fields;    *)
(* index maps each key of the defaultdict to its posting list, a sequence  *)
(* of <<doc_id, tf>>, and term_order lists the keys in the order the dict   *)
(* received them, the order its items() has.  Document ids start at 0.      *)
(***************************************************************************)
NewIndex ==
    [index |-> <<>>, term_order |-> <<>>, doc_lengths |-> <<>>, doc_metadata |-> <<>>,
     vocabulary |-> {}, total_docs |-> 0, avg_doc_length |-> <<0, 1>>]

\* CountOf with a fault: 1 for a term that occurs, however often
CountOfPresence(tokens, term) ==
    IF \E i \in 1..Len(tokens) : tokens[i] = term THEN 1 ELSE 0

\* Counter(tokens)[term]
CountOf(tokens, term) == Cardinality({i \in 1..Len(tokens) : tokens[i] = term})

\* TermsOf with a fault: the first token only
TermsOfFirst(tokens) == IF tokens = <<>> THEN {} ELSE {tokens[1]}

TermsOf(tokens) == {tokens[i] : i \in 1..Len(tokens)}

\* the distinct tokens in the order of their first occurrence, the order of
\* Counter(tokens).items()
FirstOccurrences(tokens) ==
    LET firsts == {i \in 1..Len(tokens) : \A j \in 1..(i - 1) : tokens[j] # tokens[i]}
        rank == [i \in firsts |-> Cardinality({r \in firsts : r <= i})]
    IN [k \in 1..Cardinality(firsts) |-> tokens[CHOOSE i \in firsts : rank[i] = k]]

\* AddPosting with a fault: the posting goes to the front of the list
AddPostingFront(postings, doc_id, tf) == <<<<doc_id, tf>>>> \o postings

\* self.index[term].append((doc_id, tf))
AddPosting(postings, doc_id, tf) == Append(postings, <<doc_id, tf>>)

\* one iteration of the loop of build_index once the text is tokenized
IndexTokens(st, doc_id, doc, tokens) ==
    LET terms == TermsOf(tokens)
        keys == DOMAIN st.index \cup terms
    IN [st EXCEPT
          !.doc_metadata = [d \in DOMAIN st.doc_metadata \cup {doc_id} |->
                IF d = doc_id
                THEN [title |-> doc.title, url |-> doc.url,
                      date |-> doc.date, language |-> doc.language]
                ELSE st.doc_metadata[d]],
          !.doc_lengths = [d \in DOMAIN st.doc_lengths \cup {doc_id} |->
                IF d = doc_id THEN Len(tokens) ELSE st.doc_lengths[d]],
          !.total_length = st.total_length + Len(tokens),
          !.vocabulary = st.vocabulary \cup terms,
          !.term_order = st.term_order \o
                SelectSeq(FirstOccurrences(tokens), LAMBDA t : t \notin DOMAIN st.index),
          !.index = [t \in keys |->
                LET old == IF t \in DOMAIN st.index THEN st.index[t] ELSE <<>>
                IN IF t \in terms
                   THEN AddPosting(old, doc_id, CountOf(tokens, t))
                   ELSE old]]

\* one iteration of the loop of build_index, for the document doc with id
\* doc_id; st carries the index fields and the local total_length
IndexDoc(st, doc_id, doc) ==
    IndexTokens(st, doc_id, doc, tokenize(doc.title \o " " \o doc.body))

\* the loop of build_index over documents[k..], enumerate() numbering from 0
RECURSIVE IndexLoop(_, _, _)
IndexLoop(st, documents, k) ==
    IF k > Len(documents) THEN st
    ELSE IndexLoop(IndexDoc(st, k - 1, documents[k]), documents, k + 1)

\* AvgDocLength with a fault: the last document is not counted
AvgDocLengthOffByOne(total_length, n) ==
    IF n > 1 THEN <<total_length, n - 1>> ELSE <<0, 1>>

\* total_length / self.total_docs if self.total_docs > 0 else 0
AvgDocLength(total_length, n) == IF n > 0 THEN <<total_length, n>> ELSE <<0, 1>>

\* InvertedIndex.build_index(documents) on the index value ix
build_index(ix, documents) ==
    LET st0 == [index |-> ix.index, term_order |-> ix.term_order,
                doc_lengths |-> ix.doc_lengths,
                doc_metadata |-> ix.doc_metadata, vocabulary |-> ix.vocabulary,
                total_length |-> 0]
        st == IndexLoop(st0, documents, 1)
    IN [index |-> st.index, term_order |-> st.term_order,
        doc_lengths |-> st.doc_lengths,
        doc_metadata |-> st.doc_metadata, vocabulary |-> st.vocabulary,
        total_docs |-> Len(documents),
        avg_doc_length |-> AvgDocLength(st.total_length, Len(documents))]

\* IndexAfterGet with a fault: self.index[term] on the defaultdict, which
\* adds a missing term with an empty posting list
IndexAfterGetItem(postings_of, term) ==
    [t \in DOMAIN postings_of \cup {term} |->
        IF t \in DOMAIN postings_of THEN postings_of[t] ELSE <<>>]

\* what self.index.get(term, []) leaves of the defaultdict: get adds no key
IndexAfterGet(postings_of, term) == postings_of

\* the defaultdict after get_postings for each of the terms
RECURSIVE IndexAfterGets(_, _)
IndexAfterGets(postings_of, terms) ==
    IF terms = <<>> THEN postings_of
    ELSE IndexAfterGets(IndexAfterGet(postings_of, Head(terms)), Tail(terms))

\* self.index.get(term, [])
get_postings(ix, term) == IF term \in DOMAIN ix.index THEN ix.index[term] ELSE <<>>

\* len(self.index.get(term, []))
get_doc_freq(ix, term) == Len(get_postings(ix, term))

(***************************************************************************)
(* Scores.  A float score is the integer number of its 1/Scale parts.      *)
(* math.log is tabulated: LnTable[n] is ln(n) in 1/Scale parts, and        *)
(* ln(p/q) is ln(p) - ln(q).                                               *)
(***************************************************************************)
Scale == 10000

LnTable ==
    << 0, 6931, 10986, 13863, 16094, 17918, 19459, 20794, 21972, 23026,
       23979, 24849, 25649, 26391, 27081, 27726, 28332, 28904, 29444, 29957,
       30445, 30910, 31355, 31781, 32189, 32581, 32958, 33322, 33673, 34012,
       34340, 34657, 34965, 35264, 35553, 35835, 36109, 36376, 36636, 36889 >>

\* math.log(p / q), for integers p, q >= 1
Log(p, q) == LnTable[p] - LnTable[q]

\* the product of two scores
Mul(a, b) == (a * b) \div Scale

\* TfOf with a fault: the first posting's tf, whatever its document
TfOfAnyDoc(postings, doc_id) ==
    IF postings # <<>> THEN postings[1][2] ELSE 0

\* for pid, ptf in postings: if pid == doc_id: tf = ptf; break   (tf = 0 before)
TfOf(postings, doc_id) ==
    IF \E i \in 1..Len(postings) : postings[i][1] = doc_id
    THEN LET first == CHOOSE i \in 1..Len(postings) :
                         /\ postings[i][1] = doc_id
                         /\ \A j \in 1..(i - 1) : postings[j][1] # doc_id
         IN postings[first][2]
    ELSE 0

\* TFIDFTerm with a fault: idf = math.log((N + 1) / (df + 1)), without the + 1
TFIDFTermPlainIdf(ix, term, doc_id) ==
    LET N == ix.total_docs
        postings == get_postings(ix, term)
        df == Len(postings)
    IN IF df = 0 THEN 0
       ELSE LET idf == Log(N + 1, df + 1)
                tf == TfOf(postings, doc_id)
            IN IF tf > 0 THEN Mul(Log(1 + tf, 1), idf) ELSE 0

\* TFIDFRetrieval.score_document: what one query term adds to the score
TFIDFTerm(ix, term, doc_id) ==
    LET N == ix.total_docs
        postings == get_postings(ix, term)
        df == Len(postings)
    IN IF df = 0 THEN 0
       ELSE LET idf == Log(N + 1, df + 1) + Scale
                tf == TfOf(postings, doc_id)
            IN IF tf > 0 THEN Mul(Log(1 + tf, 1), idf) ELSE 0

\* BM25Retrieval.__init__: k1 = 1.5 and b = 0.75, as fractions
DefaultK1 == <<3, 2>>
DefaultB == <<3, 4>>

\* self.index.doc_lengths.get(doc_id, avgdl), as a fraction
DocLen(ix, doc_id) ==
    IF doc_id \in DOMAIN ix.doc_lengths THEN <<ix.doc_lengths[doc_id], 1>>
    ELSE ix.avg_doc_length

\* BM25Retrieval.score_document divides doc_len by avgdl for a term the
\* document holds: ZeroDivisionError when avgdl is 0
BM25TermRaises(ix, term, doc_id) ==
    /\ TfOf(get_postings(ix, term), doc_id) > 0
    /\ ix.avg_doc_length[1] = 0

\* BM25Term with a fault: numerator = self.k1 + 1, without the factor tf
BM25TermNoTf(ix, k1, b, term, doc_id) ==
    LET N == ix.total_docs
        avgdl == ix.avg_doc_length
        doc_len == DocLen(ix, doc_id)
        postings == get_postings(ix, term)
        df == Len(postings)
    IN IF df = 0 THEN 0
       ELSE LET idf == Log((2 * N - 2 * df + 1) + (2 * df + 1), 2 * df + 1)
                tf == TfOf(postings, doc_id)
                rn == doc_len[1] * avgdl[2]
                rd == doc_len[2] * avgdl[1]
                num == (k1[1] + k1[2]) * b[2] * rd
                den == tf * k1[2] * b[2] * rd
                         + k1[1] * ((b[2] - b[1]) * rd + b[1] * rn)
            IN IF tf > 0 THEN (idf * num) \div den ELSE 0

\* BM25Term with a fault: idf * (denominator / numerator)
BM25TermInverted(ix, k1, b, term, doc_id) ==
    LET N == ix.total_docs
        avgdl == ix.avg_doc_length
        doc_len == DocLen(ix, doc_id)
        postings == get_postings(ix, term)
        df == Len(postings)
    IN IF df = 0 THEN 0
       ELSE LET idf == Log((2 * N - 2 * df + 1) + (2 * df + 1), 2 * df + 1)
                tf == TfOf(postings, doc_id)
                rn == doc_len[1] * avgdl[2]
                rd == doc_len[2] * avgdl[1]
                num == tf * (k1[1] + k1[2]) * b[2] * rd
                den == tf * k1[2] * b[2] * rd
                         + k1[1] * ((b[2] - b[1]) * rd + b[1] * rn)
            IN IF tf > 0 THEN (idf * den) \div num ELSE 0

\* BM25Retrieval.score_document: what one query term adds to the score.
\*   idf = log((N - df + 0.5) / (df + 0.5) + 1)
\*       = log(((2N - 2df + 1) + (2df + 1)) / (2df + 1))
\*   numerator / denominator, with doc_len / avgdl = rn / rd, k1 = k1n / k1d
\*   and b = bn / bd, is the fraction
\*       tf (k1n + k1d) bd rd / (tf k1d bd rd + k1n ((bd - bn) rd + bn rn))
BM25Term(ix, k1, b, term, doc_id) ==
    LET N == ix.total_docs
        avgdl == ix.avg_doc_length
        doc_len == DocLen(ix, doc_id)
        postings == get_postings(ix, term)
        df == Len(postings)
    IN IF df = 0 THEN 0
       ELSE LET idf == Log((2 * N - 2 * df + 1) + (2 * df + 1), 2 * df + 1)
                tf == TfOf(postings, doc_id)
                rn == doc_len[1] * avgdl[2]
                rd == doc_len[2] * avgdl[1]
                num == tf * (k1[1] + k1[2]) * b[2] * rd
                den == tf * k1[2] * b[2] * rd
                         + k1[1] * ((b[2] - b[1]) * rd + b[1] * rn)
            IN IF tf > 0 THEN (idf * num) \div den ELSE 0

\* model.score_document(query_terms, doc_id): the loop over the query terms
RECURSIVE score_document(_, _, _, _)
score_document(model, ix, query_terms, doc_id) ==
    IF query_terms = <<>> THEN 0
    ELSE (IF model.class = "TFIDFRetrieval"
          THEN TFIDFTerm(ix, Head(query_terms), doc_id)
          ELSE BM25Term(ix, model.k1, model.b, Head(query_terms), doc_id))
         + score_document(model, ix, Tail(query_terms), doc_id)

\* whether score_document raises ZeroDivisionError
ScoreRaises(model, ix, query_terms, doc_id) ==
    /\ model.class = "BM25Retrieval"
    /\ \E i \in 1..Len(query_terms) : BM25TermRaises(ix, query_terms[i], doc_id)

(***************************************************************************)
(* CLIRSystem.search.                                                      *)
(***************************************************************************)
\* the models scrape_and_index registers
RegisteredModels ==
    [tfidf |-> [class |-> "TFIDFRetrieval"],
     bm25 |-> [class |-> "BM25Retrieval", k1 |-> DefaultK1, b |-> DefaultB]]

\* for doc_id in range(len(self.documents)): ... if score > 0: scores.append(...)
RECURSIVE ScoreAll(_, _, _, _, _)
ScoreAll(model, ix, query_terms, ndocs, doc_id) ==
    IF doc_id >= ndocs THEN <<>>
    ELSE LET score == score_document(model, ix, query_terms, doc_id)
         IN (IF score > 0 THEN << <<doc_id, score>> >> ELSE <<>>)
              \o ScoreAll(model, ix, query_terms, ndocs, doc_id + 1)

\* InsertDesc with a fault: an element goes before the elements of its score
InsertDescBeforeEqual(sorted, e) ==
    LET k == Cardinality({i \in 1..Len(sorted) : sorted[i][2] > e[2]})
    IN SubSeq(sorted, 1, k) \o <<e>> \o SubSeq(sorted, k + 1, Len(sorted))

\* list.sort(key=lambda x: x[1], reverse=True) is stable: an element goes
\* behind every element whose score is at least its own
InsertDesc(sorted, e) ==
    LET k == Cardinality({i \in 1..Len(sorted) : sorted[i][2] >= e[2]})
    IN SubSeq(sorted, 1, k) \o <<e>> \o SubSeq(sorted, k + 1, Len(sorted))

RECURSIVE SortDesc(_)
SortDesc(scores) ==
    IF scores = <<>> THEN <<>>
    ELSE InsertDesc(SortDesc(SubSeq(scores, 1, Len(scores) - 1)), scores[Len(scores)])

\* Truncate with a fault: the last top_k entries, scores[-top_k:]
TruncateLast(scores, top_k) ==
    SubSeq(scores, IF top_k < Len(scores) THEN Len(scores) - top_k + 1 ELSE 1,
           Len(scores))

\* scores[:top_k], for top_k > 0
Truncate(scores, top_k) ==
    SubSeq(scores, 1, IF top_k < Len(scores) THEN top_k ELSE Len(scores))

\* translate_query with a fault: no text without a translator
translate_query_NoFallback(translator, query, tr) ==
    IF translator = "None" THEN ""
    ELSE IF tr.raises THEN query
    ELSE tr.text

\* translate_query with a fault: the exception is not caught for the query
translate_query_Uncaught(translator, query, tr) ==
    IF translator = "None" THEN query
    ELSE tr.text

\* translate_query: tr is what the translator does with this call
translate_query(translator, query, tr) ==
    IF translator = "None" THEN query
    ELSE IF tr.raises THEN query
    ELSE tr.text

(***************************************************************************)
(* The inputs of search.                                                   *)
(***************************************************************************)
Methods == {"tfidf", "bm25", "cosine"}
TopKs == 1..MaxTopK
Languages == {"en", "bn"}

\* what the translator does with one call: it raises, or it returns a text
NoCall == [raises |-> FALSE, text |-> ""]
TranslatorOutcomes ==
    {[raises |-> TRUE, text |-> ""]}
      \cup {[raises |-> FALSE, text |-> x] : x \in TranslationPool}

(***************************************************************************)
(* The state: the fields of a CLIRSystem (index is its InvertedIndex),     *)
(* the argument of the last build_index call (batch), the number of        *)
(* build_index calls (builds) and the outcome of the last call (ret).      *)
(* The wall-clock fields of a search record (timestamp, latency_seconds)   *)
(* are left out.  calls is the log of the search calls that have returned, *)
(* with their arguments and return values; threads holds the searches in   *)
(* flight on concurrent threads.                                           *)
(***************************************************************************)
VARIABLES documents, index, retrieval_models, translator, search_history,
          batch, builds, ret, calls, threads

vars == <<documents, index, retrieval_models, translator, search_history,
          batch, builds, ret, calls, threads>>

MaxThreads == 2
Threads == 1..MaxThreads

\* CLIRSystem.__init__; the translator is there when googletrans is installed
Init ==
    /\ documents = <<>>
    /\ index = NewIndex
    /\ retrieval_models = <<>>
    /\ translator \in {"None", "Translator"}
    /\ search_history = <<>>
    /\ batch = <<>>
    /\ builds = 0
    /\ ret = [op |-> "init"]
    /\ calls = <<>>
    /\ threads = [t \in Threads |-> [pc |-> "idle"]]

\* self.index.build_index(docs), called on the system's index
BuildIndex(docs) ==
    /\ index' = build_index(index, docs)
    /\ batch' = docs
    /\ builds' = builds + 1
    /\ ret' = [op |-> "build_index"]
    /\ UNCHANGED <<documents, retrieval_models, translator, search_history,
                   calls, threads>>

\* CLIRSystem.scrape_and_index; scraped is what the scraper returns
ScrapeAndIndex(scraped) ==
    LET docs == IF scraped = <<>> THEN SampleData ELSE scraped
    IN /\ documents' = docs
       /\ index' = build_index(index, docs)
       /\ batch' = docs
       /\ builds' = builds + 1
       /\ retrieval_models' = RegisteredModels
       /\ ret' = [op |-> "scrape_and_index"]
       /\ UNCHANGED <<translator, search_history, calls, threads>>

\* CLIRSystem.search, up to its return or the exception that ends it, step
\* by step: the record and the return value, once the results are there
SearchRanked(original_query, working, query_lang, method, query_terms, results) ==
    IF \E i \in 1..Len(results) : results[i][1] \notin DOMAIN index.doc_metadata
    THEN [status |-> "KeyError", query_terms |-> query_terms]
    ELSE [status |-> "ok",
          query_terms |-> query_terms,
          record |->
             [query |-> original_query,
              translated_query |-> IF working # original_query
                                   THEN working ELSE "None",
              query_language |-> query_lang,
              method |-> method,
              num_results |-> Len(results),
              results |-> [i \in 1..Len(results) |->
                  [doc_id |-> results[i][1],
                   score |-> results[i][2],
                   title |-> index.doc_metadata[results[i][1]].title,
                   url |-> index.doc_metadata[results[i][1]].url]]],
          value |-> [i \in 1..Len(results) |->
              <<results[i][1], results[i][2],
                index.doc_metadata[results[i][1]]>>]]

\* scoring, sorting and truncation, once the model is there
SearchScored(original_query, working, query_lang, method, top_k, query_terms, model) ==
    IF \E d \in 0..(Len(documents) - 1) : ScoreRaises(model, index, query_terms, d)
    THEN [status |-> "ZeroDivisionError", query_terms |-> query_terms]
    ELSE SearchRanked(original_query, working, query_lang, method, query_terms,
            Truncate(SortDesc(ScoreAll(model, index, query_terms, Len(documents), 0)),
                     top_k))

\* SearchTokenized with a fault: the default is a BM25 model made on the spot,
\* self.retrieval_models.get(method, BM25Retrieval(self.index))
SearchTokenizedFreshDefault(original_query, working, query_lang, method, top_k, query_terms) ==
    SearchScored(original_query, working, query_lang, method, top_k, query_terms,
        IF method \in DOMAIN retrieval_models
        THEN retrieval_models[method]
        ELSE RegisteredModels.bm25)

\* SearchTokenized with a fault: the default is self.retrieval_models['tfidf']
SearchTokenizedDefaultTfidf(original_query, working, query_lang, method, top_k, query_terms) ==
    IF "tfidf" \notin DOMAIN retrieval_models
    THEN [status |-> "KeyError", query_terms |-> query_terms]
    ELSE SearchScored(original_query, working, query_lang, method, top_k, query_terms,
            IF method \in DOMAIN retrieval_models
            THEN retrieval_models[method]
            ELSE retrieval_models["tfidf"])

\* self.retrieval_models.get(method, self.retrieval_models['bm25']): the
\* default is evaluated first, a KeyError without a 'bm25' model
SearchTokenized(original_query, working, query_lang, method, top_k, query_terms) ==
    IF "bm25" \notin DOMAIN retrieval_models
    THEN [status |-> "KeyError", query_terms |-> query_terms]
    ELSE SearchScored(original_query, working, query_lang, method, top_k, query_terms,
            IF method \in DOMAIN retrieval_models
            THEN retrieval_models[method]
            ELSE retrieval_models["bm25"])

\* the terms of the queries of a history
RECURSIVE HistoryTerms(_)
HistoryTerms(history) ==
    IF history = <<>> THEN <<>>
    ELSE tokenize(Head(history).query) \o HistoryTerms(Tail(history))

\* SearchTranslated with a fault: the terms of the earlier queries stay in
\* query_terms
SearchTranslatedAccumulating(original_query, working, query_lang, method, top_k) ==
    SearchTokenized(original_query, working, query_lang, method, top_k,
                    HistoryTerms(search_history) \o tokenize(working))

\* query_terms = self.index.tokenize(query)
SearchTranslated(original_query, working, query_lang, method, top_k) ==
    SearchTokenized(original_query, working, query_lang, method, top_k,
                    tokenize(working))

\* the translation of a query in another language
SearchOutcome(query, method, top_k, query_lang, tr) ==
    SearchTranslated(query,
                     IF query_lang # "en"
                     THEN translate_query(translator, query, tr)
                     ELSE query,
                     query_lang, method, top_k)

\* the index after the get_postings calls of the scoring loop
IndexAfterSearch(ix, query_terms) ==
    IF "bm25" \in DOMAIN retrieval_models /\ documents # <<>>
    THEN [ix EXCEPT !.index = IndexAfterGets(ix.index, query_terms)]
    ELSE ix

\* AppendRecord with a fault: self.search_history.insert(0, search_record)
AppendRecordFront(history, record) == <<record>> \o history

\* AppendRecord with a fault: self.search_history = [search_record]
AppendRecordAlone(history, record) == <<record>>

\* self.search_history.append(search_record)
AppendRecord(history, record) == Append(history, record)

\* the entry of the log of calls for a search that has returned
CallEntry(out, query, method, top_k, query_lang, tr) ==
    [query |-> query, method |-> method, top_k |-> top_k,
     query_lang |-> query_lang, tr |-> tr,
     value |-> [i \in 1..Len(out.value) |-> <<out.value[i][1], out.value[i][2]>>]]

\* self.search_history.append(search_record) and the return, or the exception
SearchEnds(out, query, method, top_k, query_lang, tr) ==
    /\ search_history' = IF out.status = "ok"
                         THEN AppendRecord(search_history, out.record)
                         ELSE search_history
    /\ calls' = IF out.status = "ok"
                THEN Append(calls, CallEntry(out, query, method, top_k, query_lang, tr))
                ELSE calls
    /\ index' = IndexAfterSearch(index, out.query_terms)
    /\ ret' = [op |-> "search", status |-> out.status,
               value |-> IF out.status = "ok" THEN out.value ELSE <<>>,
               query |-> query, method |-> method, top_k |-> top_k,
               query_lang |-> query_lang, tr |-> tr,
               query_terms |-> out.query_terms]

\* one call of CLIRSystem.search
SearchCall(query, method, top_k, query_lang, tr) ==
    /\ SearchEnds(SearchOutcome(query, method, top_k, query_lang, tr),
                  query, method, top_k, query_lang, tr)
    /\ UNCHANGED <<documents, retrieval_models, translator, batch, builds, threads>>

Search(query, method, top_k, query_lang, tr) ==
    /\ Len(search_history) < MaxHistory
    /\ SearchCall(query, method, top_k, query_lang, tr)

\* the translator is called only for a query in another language, and only
\* when there is one
SearchCalls ==
    \E query \in QueryPool, method \in Methods, top_k \in TopKs, query_lang \in Languages :
        IF query_lang # "en" /\ translator # "None"
        THEN \E tr \in TranslatorOutcomes : Search(query, method, top_k, query_lang, tr)
        ELSE Search(query, method, top_k, query_lang, NoCall)

\* The life of a system: its index is built once (from a batch handed to
\* build_index, or by scrape_and_index), then searched.
Next ==
    \/ \E docs \in Batches : builds = 0 /\ BuildIndex(docs)
    \/ \E scraped \in Batches : builds = 0 /\ ScrapeAndIndex(scraped)
    \/ SearchCalls

Spec == Init /\ [][Next]_vars

(***************************************************************************)
(* A session: the index is built once, then the system is searched,        *)
(* evaluated and exported, in any order.  The documents are what           *)
(* DailyStarScraper.scrape_article returns: they carry tokens,              *)
(* word_embeddings and named_entities as well (the embedder is None).      *)
(***************************************************************************)
MaxSession == 3
MaxTestQueries == 1

\* evaluate_retrieval: top_k=10 and results[:3]
EvalTopK == 10
EvalTop == 3

ScrapedDoc(title, body, url, named_entities) ==
    Doc(title, body, url) @@
        [tokens |-> Len(Split(body)), word_embeddings |-> "None",
         named_entities |-> named_entities]

\* the corpus 'cat dog', 'cat cat mouse', 'dog mouse mouse'
ScenarioA ==
    << ScrapedDoc("cat", "dog", "a0", <<>>),
       ScrapedDoc("cat", "cat mouse", "a1", <<>>),
       ScrapedDoc("dog", "mouse mouse", "a2", <<>>) >>

\* a batch whose first document has no token
ShortFirst ==
    << ScrapedDoc("An", "", "u4", <<>>),
       ScrapedDoc("Cat", "Dog dog", "u1", <<"Dog">>) >>

\* a batch with more documents holding 'cat' than evaluate_retrieval asks for
ManyCats ==
    [i \in 1..(EvalTopK + 2) |->
        ScrapedDoc(IF i = 2 THEN "dog" ELSE "cat",
                   IF i % 3 = 0 THEN "dog" ELSE IF i % 3 = 1 THEN "" ELSE "cat",
                   "m" \o ToString(i), <<>>)]

SessionBatches == {ScenarioA, ShortFirst, ManyCats}

\* the search calls of a session
Call(query, method, top_k, query_lang) ==
    [query |-> query, method |-> method, top_k |-> top_k, query_lang |-> query_lang]

SessionCalls ==
    { Call("cat", "bm25", 2, "en"),
      Call("cat", "tfidf", 1, "en"),
      Call("Mouse, dog zebra", "cosine", 2, "bn") }

\* whether search calls the translator for this language
Translates(query_lang) == query_lang # "en" /\ translator # "None"

SessionSearch ==
    \E c \in SessionCalls :
        /\ Len(search_history) < MaxSession
        /\ IF Translates(c.query_lang)
           THEN \E tr \in TranslatorOutcomes :
                   SearchCall(c.query, c.method, c.top_k, c.query_lang, tr)
           ELSE SearchCall(c.query, c.method, c.top_k, c.query_lang, NoCall)

(***************************************************************************)
(* CLIRSystem.evaluate_retrieval.                                          *)
(***************************************************************************)
EvalMethods == <<"tfidf", "bm25">>

\* elapsed = time.time() - start_time, in ticks of the clock
Latencies == {0, 1}

\* the sum of elapsed[i + 1 .. i + n]
RECURSIVE TotalLatency(_, _, _)
TotalLatency(elapsed, i, n) ==
    IF n = 0 THEN 0 ELSE elapsed[i + n] + TotalLatency(elapsed, i, n - 1)

\* query_data.get('lang', 'en')
LangOf(query_data) ==
    IF "lang" \in DOMAIN query_data THEN query_data.lang ELSE "en"

\* the search calls of evaluate_retrieval, in order: for each method, each
\* test query
EvalCalls(test_queries) ==
    [i \in 1..(Len(EvalMethods) * Len(test_queries)) |->
        Call(test_queries[((i - 1) % Len(test_queries)) + 1].query,
             EvalMethods[((i - 1) \div Len(test_queries)) + 1],
             EvalTopK,
             LangOf(test_queries[((i - 1) % Len(test_queries)) + 1]))]

\* what the translator may do during these calls
TranslatorRuns(cs) ==
    {trs \in [1..Len(cs) -> TranslatorOutcomes \cup {NoCall}] :
        \A i \in 1..Len(cs) :
            trs[i] = NoCall <=> ~Translates(cs[i].query_lang)}

\* the outcomes of these calls
EvalOutcomes(cs, trs) ==
    [i \in 1..Len(cs) |->
        SearchOutcome(cs[i].query, cs[i].method, cs[i].top_k, cs[i].query_lang, trs[i])]

\* the number of calls that return before the first one that raises
ReturnedCalls(outs) ==
    IF \A i \in 1..Len(outs) : outs[i].status = "ok" THEN Len(outs)
    ELSE (CHOOSE i \in 1..Len(outs) :
            /\ outs[i].status # "ok"
            /\ \A j \in 1..(i - 1) : outs[j].status = "ok") - 1

\* the history after the appends of the first k calls, from call i on
RECURSIVE AppendRecords(_, _, _, _)
AppendRecords(history, outs, i, k) ==
    IF i > k THEN history
    ELSE AppendRecords(AppendRecord(history, outs[i].record), outs, i + 1, k)

\* the index after the get_postings calls of the first k calls, from call i on
RECURSIVE IndexAfterSearches(_, _, _, _)
IndexAfterSearches(ix, outs, i, k) ==
    IF i > k THEN ix
    ELSE IndexAfterSearches(IndexAfterSearch(ix, outs[i].query_terms), outs, i + 1, k)

\* Top3Docs with a fault: results[:2]
Top2Docs(value) ==
    [i \in 1..(IF Len(value) < 2 THEN Len(value) ELSE 2) |->
        [title |-> value[i][3].title, score |-> value[i][2]]]

\* results[:3] as title and score
Top3Docs(value) ==
    [i \in 1..(IF Len(value) < EvalTop THEN Len(value) ELSE EvalTop) |->
        [title |-> value[i][3].title, score |-> value[i][2]]]

\* evaluation_results; a latency is a number of ticks, an average a fraction
EvaluationResults(test_queries, outs, elapsed) ==
    [m \in {EvalMethods[k] : k \in 1..Len(EvalMethods)} |->
        LET base == ((CHOOSE k \in 1..Len(EvalMethods) : EvalMethods[k] = m) - 1)
                       * Len(test_queries)
        IN [method |-> m,
            queries_tested |-> Len(test_queries),
            query_results |-> [j \in 1..Len(test_queries) |->
                [query |-> test_queries[j].query,
                 num_results |-> Len(outs[base + j].value),
                 latency_seconds |-> elapsed[base + j],
                 top_3_docs |-> Top3Docs(outs[base + j].value)]],
            total_latency |-> TotalLatency(elapsed, base, Len(test_queries)),
            avg_latency |->
                IF Len(test_queries) > 0
                THEN <<TotalLatency(elapsed, base, Len(test_queries)), Len(test_queries)>>
                ELSE <<0, 1>>]]

\* evaluate_retrieval once the outcomes of its calls are known: k of them
\* return, and the next one, if there is one, ends evaluate_retrieval too
EvaluateEnds(test_queries, cs, trs, outs, k, elapsed) ==
    /\ search_history' = AppendRecords(search_history, outs, 1, k)
    /\ calls' = calls \o
          [i \in 1..k |-> CallEntry(outs[i], cs[i].query, cs[i].method, cs[i].top_k,
                                    cs[i].query_lang, trs[i])]
    /\ index' = IndexAfterSearches(index, outs, 1, k)
    /\ ret' = [op |-> "evaluate_retrieval",
               status |-> IF k = Len(outs) THEN "ok" ELSE outs[k + 1].status,
               test_queries |-> test_queries,
               returned |-> k,
               value |-> IF k = Len(outs)
                         THEN EvaluationResults(test_queries, outs, elapsed) ELSE <<>>]
    /\ UNCHANGED <<documents, retrieval_models, translator, batch, builds, threads>>

\* the latencies of the calls that return are the clock's
EvaluateRuns(test_queries, cs, trs, outs) ==
    \E elapsed \in [1..ReturnedCalls(outs) -> Latencies] :
        EvaluateEnds(test_queries, cs, trs, outs, ReturnedCalls(outs), elapsed)

EvaluateCalls(test_queries, cs) ==
    \E trs \in TranslatorRuns(cs) :
        EvaluateRuns(test_queries, cs, trs, EvalOutcomes(cs, trs))

Evaluate(test_queries) == EvaluateCalls(test_queries, EvalCalls(test_queries))

\* the test queries: with a language, and without the key 'lang'
TestQueryPool ==
    { [query |-> "cat", lang |-> "en"],
      [query |-> "Mouse, dog zebra", lang |-> "bn"],
      [query |-> "an"] }

TestQueries == UNION {[1..n -> TestQueryPool] : n \in 0..MaxTestQueries}

(***************************************************************************)
(* CLIRSystem.save_complete_data.  The file it writes is modelled by the   *)
(* JSON value json.dump writes, which is what parsing the file gives back: *)
(* the int keys of a dict are strings there, tuples are lists, None is     *)
(* null.  The export timestamp is left out.                                *)
(***************************************************************************)
\* list(self.vocabulary): a set is listed in an order of its own
Orders(S) ==
    {s \in [1..Cardinality(S) -> S] : \A i, j \in 1..Cardinality(S) : i # j => s[i] # s[j]}

\* to_dict with a fault: the first posting of each term only, postings[:1]
to_dict_FirstPosting(ix, vocabulary) ==
    [index |-> [term \in DOMAIN ix.index |-> SubSeq(ix.index[term], 1, 1)],
     doc_lengths |-> ix.doc_lengths,
     doc_metadata |-> ix.doc_metadata,
     vocabulary |-> vocabulary,
     total_docs |-> ix.total_docs,
     avg_doc_length |-> ix.avg_doc_length]

\* InvertedIndex.to_dict; vocabulary is list(self.vocabulary)
to_dict(ix, vocabulary) ==
    [index |-> [term \in DOMAIN ix.index |-> ix.index[term]],
     doc_lengths |-> ix.doc_lengths,
     doc_metadata |-> ix.doc_metadata,
     vocabulary |-> vocabulary,
     total_docs |-> ix.total_docs,
     avg_doc_length |-> ix.avg_doc_length]

\* _get_top_terms(n): the terms in the order of the dict, sorted by document
\* frequency (a stable sort), the first n of them
TopTerms == 20

get_top_terms(ix, n) ==
    LET term_doc_freq == [k \in 1..Len(ix.term_order) |->
                             <<ix.term_order[k], Len(ix.index[ix.term_order[k]])>>]
        top == Truncate(SortDesc(term_doc_freq), n)
    IN [k \in 1..Len(top) |-> [term |-> top[k][1], document_frequency |-> top[k][2]]]

\* sum(len(postings) for postings in self.index.index.values())
RECURSIVE TotalPostings(_, _)
TotalPostings(postings_of, terms) ==
    IF terms = {} THEN 0
    ELSE LET term == CHOOSE x \in terms : TRUE
         IN Len(postings_of[term]) + TotalPostings(postings_of, terms \ {term})

\* HistoryExported with a fault: self.search_history[-1:]
HistoryExportedLast(history) ==
    IF history = <<>> THEN <<>> ELSE <<history[Len(history)]>>

\* 'search_history': self.search_history
HistoryExported(history) == history

\* complete_data
CompleteData(vocabulary) ==
    [metadata |->
        [system_name |-> "Cross-Lingual Information Retrieval System",
         source_website |-> "The Daily Star (thedailystar.net)",
         total_documents |-> Len(documents),
         total_vocabulary_terms |-> Cardinality(index.vocabulary),
         embeddings_enabled |-> FALSE,
         translation_enabled |-> translator # "None"],
     documents |-> [i \in 1..Len(documents) |->
        [doc_id |-> i - 1,
         title |-> documents[i].title,
         body |-> documents[i].body,
         url |-> documents[i].url,
         date |-> documents[i].date,
         language |-> documents[i].language,
         tokens |-> documents[i].tokens,
         named_entities |-> documents[i].named_entities,
         word_embeddings |-> documents[i].word_embeddings]],
     inverted_index |-> to_dict(index, vocabulary),
     index_statistics |->
        [total_documents |-> index.total_docs,
         vocabulary_size |-> Cardinality(index.vocabulary),
         average_document_length |-> index.avg_doc_length,
         total_postings |-> TotalPostings(index.index, DOMAIN index.index),
         top_20_frequent_terms |-> get_top_terms(index, TopTerms)],
     search_history |-> HistoryExported(search_history),
     retrieval_models |->
        [tfidf |-> [name |-> "TF-IDF",
                    description |-> "Term Frequency-Inverse Document Frequency"],
         bm25 |-> [name |-> "BM25",
                   description |-> "Best Match 25 (Okapi BM25)",
                   parameters |-> [k1 |-> <<3, 2>>, b |-> <<3, 4>>]]]]

\* json.dump writes the int keys of a dict as strings
JsonKeys(f) ==
    [s \in {ToString(d) : d \in DOMAIN f} |-> f[CHOOSE d \in DOMAIN f : ToString(d) = s]]

\* json.dump(complete_data, f, ...): the JSON value in the file
json_dump(complete_data) ==
    [complete_data EXCEPT
        !.inverted_index.doc_lengths = JsonKeys(@),
        !.inverted_index.doc_metadata = JsonKeys(@)]

\* whether save_complete_data raises: a document without the key it reads
ExportKeys ==
    {"title", "body", "url", "date", "language", "tokens", "named_entities"}

SaveCompleteData ==
    /\ \A i \in 1..Len(documents) : ExportKeys \subseteq DOMAIN documents[i]
    /\ \E vocabulary \in Orders(index.vocabulary) :
          ret' = [op |-> "save_complete_data", status |-> "ok",
                  value |-> json_dump(CompleteData(vocabulary))]
    /\ UNCHANGED <<documents, index, retrieval_models, translator, search_history,
                   batch, builds, calls, threads>>

\* a session: one build, then searches, evaluations and exports
NextSession ==
    \/ \E docs \in SessionBatches : builds = 0 /\ BuildIndex(docs)
    \/ \E scraped \in SessionBatches : builds = 0 /\ ScrapeAndIndex(scraped)
    \/ SessionSearch
    \/ \E test_queries \in TestQueries :
          /\ Len(search_history) + Len(EvalMethods) * Len(test_queries) <= MaxSession
          /\ Evaluate(test_queries)
    \/ SaveCompleteData

SpecSession == Init /\ [][NextSession]_vars

(***************************************************************************)
(* scrape_and_index step by step, with searches between its steps: the     *)
(* documents are stored, build_index sets total_docs, indexes the          *)
(* documents one after the other and sets avg_doc_length, then the models  *)
(* are registered.  threads[1] holds the position of scrape_and_index.     *)
(***************************************************************************)
\* self.documents = self.scraper.scrape_multiple(max_pages), or the sample data
ScrapeStarts(scraped) ==
    /\ threads[1].pc = "idle"
    /\ documents' = IF scraped = <<>> THEN SampleData ELSE scraped
    /\ batch' = documents'
    /\ threads' = [threads EXCEPT ![1] = [pc |-> "build_index"]]
    /\ UNCHANGED <<index, retrieval_models, translator, search_history, builds,
                   ret, calls>>

\* self.total_docs = len(documents); total_length = 0
BuildStarts ==
    /\ threads[1].pc = "build_index"
    /\ index' = [index EXCEPT !.total_docs = Len(documents)]
    /\ threads' = [threads EXCEPT ![1] = [pc |-> "indexing", k |-> 1, total_length |-> 0]]
    /\ UNCHANGED <<documents, retrieval_models, translator, search_history, batch,
                   builds, ret, calls>>

\* the index and total_length after one more turn of the loop
IndexedOneMore(st) ==
    /\ index' = [index |-> st.index, term_order |-> st.term_order,
                 doc_lengths |-> st.doc_lengths, doc_metadata |-> st.doc_metadata,
                 vocabulary |-> st.vocabulary, total_docs |-> index.total_docs,
                 avg_doc_length |-> index.avg_doc_length]
    /\ threads' = [threads EXCEPT ![1] =
          [pc |-> "indexing", k |-> threads[1].k + 1, total_length |-> st.total_length]]

\* one turn of the loop of build_index, for the document documents[k]
IndexNext ==
    /\ threads[1].pc = "indexing"
    /\ threads[1].k <= Len(documents)
    /\ IndexedOneMore(
          IndexDoc([index |-> index.index, term_order |-> index.term_order,
                    doc_lengths |-> index.doc_lengths,
                    doc_metadata |-> index.doc_metadata,
                    vocabulary |-> index.vocabulary,
                    total_length |-> threads[1].total_length],
                   threads[1].k - 1, documents[threads[1].k]))
    /\ UNCHANGED <<documents, retrieval_models, translator, search_history, batch,
                   builds, ret, calls>>

\* self.avg_doc_length = total_length / self.total_docs if ... else 0
BuildEnds ==
    /\ threads[1].pc = "indexing"
    /\ threads[1].k > Len(documents)
    /\ index' = [index EXCEPT !.avg_doc_length =
                    AvgDocLength(threads[1].total_length, index.total_docs)]
    /\ builds' = builds + 1
    /\ threads' = [threads EXCEPT ![1] = [pc |-> "register"]]
    /\ UNCHANGED <<documents, retrieval_models, translator, search_history, batch,
                   ret, calls>>

\* self.retrieval_models = {'tfidf': ..., 'bm25': ...}, and the return
RegisterModels ==
    /\ threads[1].pc = "register"
    /\ retrieval_models' = RegisteredModels
    /\ threads' = [threads EXCEPT ![1] = [pc |-> "done"]]
    /\ ret' = [op |-> "scrape_and_index"]
    /\ UNCHANGED <<documents, index, translator, search_history, batch, builds, calls>>

NextStartup ==
    \/ \E scraped \in SessionBatches \cup {<<>>} : ScrapeStarts(scraped)
    \/ BuildStarts
    \/ IndexNext
    \/ BuildEnds
    \/ RegisterModels
    \/ \E c \in SessionCalls :
          /\ Len(search_history) < MaxHistory
          /\ IF Translates(c.query_lang)
             THEN \E tr \in TranslatorOutcomes :
                     SearchCall(c.query, c.method, c.top_k, c.query_lang, tr)
             ELSE SearchCall(c.query, c.method, c.top_k, c.query_lang, NoCall)

SpecStartup == Init /\ [][NextStartup]_vars

(***************************************************************************)
(* A system whose BM25 model is constructed with parameters of the         *)
(* caller's: system.retrieval_models['bm25'] = BM25Retrieval(system.index, *)
(* k1, b).  k1 and b are fractions, as the defaults are.                   *)
(***************************************************************************)
K1s == {DefaultK1, <<2, 1>>, <<0, 1>>}
Bs == {DefaultB, <<1, 2>>, <<1, 1>>}

\* BM25Retrieval.__init__(index, k1, b), bound to the name 'bm25'
RegisterBM25(k1, b) ==
    /\ retrieval_models' =
          [m \in DOMAIN retrieval_models \cup {"bm25"} |->
              IF m = "bm25" THEN [class |-> "BM25Retrieval", k1 |-> k1, b |-> b]
              ELSE retrieval_models[m]]
    /\ ret' = [op |-> "BM25Retrieval", k1 |-> k1, b |-> b]
    /\ UNCHANGED <<documents, index, translator, search_history, batch, builds,
                   calls, threads>>

NextModels ==
    \/ \E scraped \in SessionBatches : builds = 0 /\ ScrapeAndIndex(scraped)
    \/ \E k1 \in K1s, b \in Bs : RegisterBM25(k1, b)
    \/ \E c \in SessionCalls :
          /\ Len(search_history) < MaxHistory
          /\ IF Translates(c.query_lang)
             THEN \E tr \in TranslatorOutcomes :
                     SearchCall(c.query, c.method, c.top_k, c.query_lang, tr)
             ELSE SearchCall(c.query, c.method, c.top_k, c.query_lang, NoCall)
    \/ SaveCompleteData

SpecModels == Init /\ [][NextModels]_vars

(***************************************************************************)
(* Concurrent searches: the threads of one process call search on the same *)
(* built system.  Between the steps of a thread the other threads may run: *)
(* before the translation (a network call), before the scoring, which      *)
(* reads the index and builds the record, before the append (list.append,  *)
(* one call under the interpreter lock) and before the return.             *)
(***************************************************************************)
\* a thread calls search(c.query, c.method, c.top_k, c.query_lang)
ThreadCalls(t, c, tr) ==
    /\ threads[t].pc = "idle"
    /\ threads' = [threads EXCEPT ![t] = [pc |-> "translate", call |-> c, tr |-> tr]]
    /\ UNCHANGED <<documents, index, retrieval_models, translator, search_history,
                   batch, builds, ret, calls>>

\* original_query = query; query = self.translate_query(...)
ThreadTranslates(t) ==
    /\ threads[t].pc = "translate"
    /\ threads' = [threads EXCEPT ![t] =
          [pc |-> "score", call |-> threads[t].call, tr |-> threads[t].tr,
           working |-> IF threads[t].call.query_lang # "en"
                       THEN translate_query(translator, threads[t].call.query,
                                            threads[t].tr)
                       ELSE threads[t].call.query]]
    /\ UNCHANGED <<documents, index, retrieval_models, translator, search_history,
                   batch, builds, ret, calls>>

\* the thread once its outcome is known: on to the append, or the exception
ThreadScored(t, out) ==
    /\ threads' = [threads EXCEPT ![t] =
          [pc |-> IF out.status = "ok" THEN "append" ELSE "raised",
           call |-> threads[t].call, tr |-> threads[t].tr,
           working |-> threads[t].working, out |-> out]]
    /\ index' = IndexAfterSearch(index, out.query_terms)

\* tokenize, model lookup, scoring, sort, truncation, search_record
ThreadScores(t) ==
    /\ threads[t].pc = "score"
    /\ ThreadScored(t, SearchTranslated(threads[t].call.query, threads[t].working,
                                        threads[t].call.query_lang,
                                        threads[t].call.method, threads[t].call.top_k))
    /\ UNCHANGED <<documents, retrieval_models, translator, search_history,
                   batch, builds, ret, calls>>

\* self.search_history.append(search_record)
ThreadAppends(t) ==
    /\ threads[t].pc = "append"
    /\ search_history' = AppendRecord(search_history, threads[t].out.record)
    /\ threads' = [threads EXCEPT ![t].pc = "return"]
    /\ UNCHANGED <<documents, index, retrieval_models, translator,
                   batch, builds, ret, calls>>

\* return [(doc_id, score, self.index.doc_metadata[doc_id]) ...]
ThreadReturns(t) ==
    /\ threads[t].pc = "return"
    /\ threads' = [threads EXCEPT ![t].pc = "done"]
    /\ calls' = Append(calls, CallEntry(threads[t].out, threads[t].call.query,
                                        threads[t].call.method, threads[t].call.top_k,
                                        threads[t].call.query_lang, threads[t].tr))
    /\ UNCHANGED <<documents, index, retrieval_models, translator, search_history,
                   batch, builds, ret>>

\* the index is built before any search is issued
NextConcurrent ==
    \/ \E scraped \in SessionBatches : builds = 0 /\ ScrapeAndIndex(scraped)
    \/ \E t \in Threads, c \in SessionCalls :
          /\ builds = 1
          /\ IF Translates(c.query_lang)
             THEN \E tr \in TranslatorOutcomes : ThreadCalls(t, c, tr)
             ELSE ThreadCalls(t, c, NoCall)
    \/ \E t \in Threads : ThreadTranslates(t)
    \/ \E t \in Threads : ThreadScores(t)
    \/ \E t \in Threads : ThreadAppends(t)
    \/ \E t \in Threads : ThreadReturns(t)

SpecConcurrent == Init /\ [][NextConcurrent]_vars

(***************************************************************************)
(* Searches whose translator may fail to respond.  translate_query calls   *)
(* self.translator.translate(query, src=..., dest=...) and waits for its   *)
(* return; it passes no timeout and starts no timer.  A thread that can    *)
(* take a step eventually takes it (the interpreter switches threads).     *)
(***************************************************************************)
\* the translator does not respond to this call
NoResponse == [raises |-> FALSE, text |-> "", responds |-> FALSE]

\* translated = self.translator.translate(...) returns or raises, if ever the
\* translator responds
ThreadTranslatesOnResponse(t) ==
    /\ threads[t].pc = "translate"
    /\ threads[t].tr # NoResponse
    /\ ThreadTranslates(t)

ThreadStep(t) ==
    \/ ThreadTranslatesOnResponse(t)
    \/ ThreadScores(t)
    \/ ThreadAppends(t)
    \/ ThreadReturns(t)

NextTranslation ==
    \/ \E scraped \in SessionBatches : builds = 0 /\ ScrapeAndIndex(scraped)
    \/ \E t \in Threads, c \in SessionCalls :
          /\ builds = 1
          /\ IF Translates(c.query_lang)
             THEN \E tr \in TranslatorOutcomes \cup {NoResponse} : ThreadCalls(t, c, tr)
             ELSE ThreadCalls(t, c, NoCall)
    \/ \E t \in Threads : ThreadStep(t)

SpecTranslation ==
    Init /\ [][NextTranslation]_vars /\ \A t \in Threads : WF_vars(ThreadStep(t))

(***************************************************************************)
(* build_index called with any batch of dicts, on a new index or on one    *)
(* that holds an earlier batch.  A dict may lack a key the loop reads:     *)
(* doc['title'], doc['url'], doc['date'], doc['language'] for the metadata, *)
(* then doc['title'] and doc['body'] for the text.  The KeyError ends      *)
(* build_index where it is raised.                                         *)
(***************************************************************************)
MaxBuilds == 2

MetadataKeys == {"title", "url", "date", "language"}

\* whether the loop body raises KeyError for doc
DocRaises(doc) == ~(MetadataKeys \cup {"body"} \subseteq DOMAIN doc)

\* the position of the first document of the batch the loop raises for
FirstRaising(docs) ==
    CHOOSE k \in 1..Len(docs) :
        /\ DocRaises(docs[k])
        /\ \A j \in 1..(k - 1) : ~DocRaises(docs[j])

\* self.doc_metadata[doc_id] = {...} is assigned before doc['body'] is read
MetadataOfRaising(doc_metadata, doc_id, doc) ==
    IF MetadataKeys \subseteq DOMAIN doc
    THEN [d \in DOMAIN doc_metadata \cup {doc_id} |->
            IF d = doc_id
            THEN [title |-> doc.title, url |-> doc.url,
                  date |-> doc.date, language |-> doc.language]
            ELSE doc_metadata[d]]
    ELSE doc_metadata

\* the index a build_index call leaves that raises at position k: total_docs
\* is set, the documents before k are indexed, avg_doc_length is not assigned
IndexOfRaising(ix, docs, k, st) ==
    [index |-> st.index, term_order |-> st.term_order,
     doc_lengths |-> st.doc_lengths,
     doc_metadata |-> MetadataOfRaising(st.doc_metadata, k - 1, docs[k]),
     vocabulary |-> st.vocabulary,
     total_docs |-> Len(docs),
     avg_doc_length |-> ix.avg_doc_length]

build_index_raising(ix, docs, k) ==
    IndexOfRaising(ix, docs, k,
        IndexLoop([index |-> ix.index, term_order |-> ix.term_order,
                   doc_lengths |-> ix.doc_lengths,
                   doc_metadata |-> ix.doc_metadata, vocabulary |-> ix.vocabulary,
                   total_length |-> 0],
                  SubSeq(docs, 1, k - 1), 1))

\* self.index.build_index(docs) for any batch
BuildIndexCall(docs) ==
    /\ IF \E k \in 1..Len(docs) : DocRaises(docs[k])
       THEN /\ index' = build_index_raising(index, docs, FirstRaising(docs))
            /\ ret' = [op |-> "build_index", status |-> "KeyError",
                       at |-> FirstRaising(docs)]
       ELSE /\ index' = build_index(index, docs)
            /\ ret' = [op |-> "build_index", status |-> "ok"]
    /\ batch' = docs
    /\ builds' = builds + 1
    /\ UNCHANGED <<documents, retrieval_models, translator, search_history,
                   calls, threads>>

\* dicts without 'date', without 'body' and without 'title'
NoDate == [title |-> "cat cat", body |-> "Mouse!", url |-> "u2", language |-> "en"]
NoBody == [title |-> "dog", url |-> "u3", date |-> "", language |-> "en"]
NoTitle == [body |-> "mouse", url |-> "u5", date |-> "", language |-> "en"]

BuildPool == {Doc("Cat", "dog", "u1"), Doc("An", "", "u4"), NoDate, NoBody, NoTitle}

BuildBatches == UNION {[1..n -> BuildPool] : n \in 0..MaxDocs}

\* BM25Retrieval(self.index).score_document(query_terms, doc_id), with the
\* default k1 and b
ScoreDocumentCall(query_terms, doc_id) ==
    /\ ret' = IF ScoreRaises(RegisteredModels.bm25, index, query_terms, doc_id)
              THEN [op |-> "score_document", status |-> "ZeroDivisionError",
                    query_terms |-> query_terms, doc_id |-> doc_id]
              ELSE [op |-> "score_document", status |-> "ok",
                    query_terms |-> query_terms, doc_id |-> doc_id,
                    value |-> score_document(RegisteredModels.bm25, index,
                                             query_terms, doc_id)]
    /\ UNCHANGED <<documents, index, retrieval_models, translator, search_history,
                   batch, builds, calls, threads>>

\* the query terms and the document ids score_document is called with
ScoreTerms == {<<>>, <<"cat">>, <<"dog", "cat">>, <<"zebra">>}
ScoreDocIds == 0..MaxDocs

NextBuild ==
    \/ \E docs \in BuildBatches : builds < MaxBuilds /\ BuildIndexCall(docs)
    \/ \E query_terms \in ScoreTerms, doc_id \in ScoreDocIds :
          ScoreDocumentCall(query_terms, doc_id)

SpecBuild == Init /\ [][NextBuild]_vars

(***************************************************************************)
(* InvertedIndex.tokenize called with an argument: None, or a text of at   *)
(* most MaxText characters.  None has no method lower: AttributeError.     *)
(***************************************************************************)
MaxText == 3

TextChars == {"a", "B", "7", " ", "!", "_"}

RECURSIVE Texts(_)
Texts(n) ==
    IF n = 0 THEN {""}
    ELSE Texts(n - 1) \cup {s \o c : s \in Texts(n - 1), c \in TextChars}

TokenizeArguments ==
    {[none |-> TRUE]} \cup {[none |-> FALSE, text |-> s] : s \in Texts(MaxText)}

\* self.index.tokenize(arg)
tokenize_call(arg) ==
    IF arg.none
    THEN [status |-> "AttributeError"]
    ELSE [status |-> "ok", value |-> tokenize(arg.text)]

InitTokenize ==
    /\ documents = <<>>
    /\ index = NewIndex
    /\ retrieval_models = <<>>
    /\ translator = "None"
    /\ search_history = <<>>
    /\ batch = <<>>
    /\ builds = 0
    /\ ret \in {[op |-> "argument", arg |-> a] : a \in TokenizeArguments}
    /\ calls = <<>>
    /\ threads = [t \in Threads |-> [pc |-> "idle"]]

TokenizeCall ==
    /\ ret.op = "argument"
    /\ ret' = [op |-> "tokenize", arg |-> ret.arg, out |-> tokenize_call(ret.arg)]
    /\ UNCHANGED <<documents, index, retrieval_models, translator, search_history,
                   batch, builds, calls, threads>>

SpecTokenize == InitTokenize /\ [][TokenizeCall]_vars

(***************************************************************************)
(* The score of one query term as a function of tf, the statistics of the  *)
(* corpus being what they are: N documents, df of them with the term, the  *)
(* length of the document, the total length of the corpus, k1 and b.       *)
(***************************************************************************)
MaxN == 4
MaxTf == 8
MaxDocLen == 4

\* an index with these statistics, where document 0 holds 'cat' tf times
StatsIndex(N, df, doc_len, total_length, tf) ==
    [index |-> [term \in {"cat"} |-> [i \in 1..df |-> <<i - 1, IF i = 1 THEN tf ELSE 1>>]],
     term_order |-> <<"cat">>,
     doc_lengths |-> [d \in {0} |-> doc_len],
     doc_metadata |-> <<>>,
     vocabulary |-> {"cat"},
     total_docs |-> N,
     avg_doc_length |-> AvgDocLength(total_length, N)]

\* the index where document 0 holds the term once more
OnceMore(ix) == [ix EXCEPT !.index["cat"][1][2] = @ + 1]

InitScore ==
    /\ documents = <<>>
    /\ index \in {StatsIndex(N, df, doc_len, total_length, tf) :
                     N \in 1..MaxN, df \in 1..MaxN, doc_len \in 1..MaxDocLen,
                     total_length \in 1..MaxDocLen, tf \in 1..MaxTf}
    /\ index.total_docs >= Len(index.index["cat"])
    /\ retrieval_models = <<>>
    /\ translator = "None"
    /\ search_history = <<>>
    /\ batch = <<>>
    /\ builds = 0
    /\ ret = [op |-> "init"]
    /\ calls = <<>>
    /\ threads = [t \in Threads |-> [pc |-> "idle"]]

\* what the term adds to the score of document 0, under TF-IDF and under
\* BM25 with k1 and b, for tf and for tf + 1
ScoreTermCall(k1, b) ==
    /\ ret.op = "init"
    /\ ret' = [op |-> "score_term", k1 |-> k1, b |-> b,
               tf |-> TfOf(get_postings(index, "cat"), 0),
               tfidf |-> TFIDFTerm(index, "cat", 0),
               tfidf_next |-> TFIDFTerm(OnceMore(index), "cat", 0),
               bm25 |-> BM25Term(index, k1, b, "cat", 0),
               bm25_next |-> BM25Term(OnceMore(index), k1, b, "cat", 0)]
    /\ UNCHANGED <<documents, index, retrieval_models, translator, search_history,
                   batch, builds, calls, threads>>

NextScore == \E k1 \in K1s, b \in Bs : ScoreTermCall(k1, b)

SpecScore == InitScore /\ [][NextScore]_vars

(***************************************************************************)
(* Properties.                                                             *)
(***************************************************************************)
Returned == ret.op = "search" /\ ret.status = "ok"

LastRecord == search_history[Len(search_history)]

\* the model search scores with: the one registered as method, else BM25
ModelUsed ==
    IF ret.method \in DOMAIN retrieval_models
    THEN retrieval_models[ret.method]
    ELSE retrieval_models["bm25"]

DocIds == 0..(Len(documents) - 1)

ReturnedIds == {ret.value[i][1] : i \in 1..Len(ret.value)}

Min(a, b) == IF a < b THEN a ELSE b

\* what search returns for the text query taken as it is (query_lang 'en')
ScoredValue(query, method, top_k) ==
    SearchOutcome(query, method, top_k, "en", NoCall).value

\* C1: the list search returns is ordered by non-increasing score, two
\* results of equal score are in ascending document-id order, and no
\* document id appears twice.
C1_RankedOrder ==
    Returned =>
        LET r == ret.value
        IN /\ \A i \in 1..(Len(r) - 1) : r[i][2] >= r[i + 1][2]
           /\ \A i, j \in 1..Len(r) :
                 (i < j /\ r[i][2] = r[j][2]) => r[i][1] < r[j][1]
           /\ \A i, j \in 1..Len(r) : i # j => r[i][1] # r[j][1]

\* a search has returned two documents of equal score
C1_Witness ==
    /\ Returned
    /\ Len(ret.value) >= 2
    /\ ret.value[1][2] = ret.value[2][2]

\* C2: search returns at most top_k results, each of score > 0, and they are
\* the first min(top_k, M) entries of the ranking of the M documents whose
\* score is > 0: every matching document left out ranks behind every
\* returned one.
C2_TopKPrefix ==
    Returned =>
        LET r == ret.value
            Score(d) == score_document(ModelUsed, index, ret.query_terms, d)
            Matching == {d \in DocIds : Score(d) > 0}
        IN /\ Len(r) <= ret.top_k
           /\ Len(r) = Min(ret.top_k, Cardinality(Matching))
           /\ \A i \in 1..Len(r) :
                 /\ r[i][2] > 0
                 /\ r[i][1] \in Matching
                 /\ r[i][2] = Score(r[i][1])
           /\ \A d \in Matching \ ReturnedIds : \A i \in 1..Len(r) :
                 \/ r[i][2] > Score(d)
                 \/ (r[i][2] = Score(d) /\ r[i][1] < d)

\* a search has cut the ranking: more documents match than top_k
C2_Witness ==
    /\ Returned
    /\ Len(ret.value) = ret.top_k
    /\ \E d \in DocIds \ ReturnedIds :
          score_document(ModelUsed, index, ret.query_terms, d) > 0

\* the query-term sequences of the query pool: the empty one and one with a
\* term no document holds among them
QueryTermSeqs == {tokenize(q) : q \in QueryPool} \cup {<<"zebra">>}

NoPosting(terms, d) ==
    \A i \in 1..Len(terms) :
        \A k \in 1..Len(get_postings(index, terms[i])) :
            get_postings(index, terms[i])[k][1] # d

\* C3: a document with no posting for any query term scores exactly 0 with
\* TF-IDF and with BM25 (without an error), and search never returns it.
C3_NoPostingScoresZero ==
    /\ \A terms \in QueryTermSeqs : \A d \in 0..index.total_docs :
          NoPosting(terms, d) =>
             /\ score_document(RegisteredModels.tfidf, index, terms, d) = 0
             /\ score_document(RegisteredModels.bm25, index, terms, d) = 0
             /\ ~ScoreRaises(RegisteredModels.bm25, index, terms, d)
    /\ Returned => \A d \in ReturnedIds : ~NoPosting(ret.query_terms, d)

\* a search for terms of the vocabulary has returned a document and left out
\* another one, which has no posting for any of them
C3_Witness ==
    /\ Returned
    /\ ret.value # <<>>
    /\ \E d \in DocIds \ ReturnedIds : NoPosting(ret.query_terms, d)
    /\ \E terms \in QueryTermSeqs : \E d \in 0..(index.total_docs - 1) :
          /\ terms # <<>>
          /\ NoPosting(terms, d)
          /\ \E i \in 1..Len(terms) : terms[i] \in index.vocabulary

\* C4: after build_index on an empty batch, total_docs = 0 and
\* avg_doc_length = 0, and any search after it returns the empty list
\* rather than raising an error.
C4_EmptyBatchSearch ==
    (builds = 1 /\ batch = <<>>) =>
        /\ index.total_docs = 0
        /\ index.avg_doc_length[1] = 0
        /\ ret.op = "search" => (ret.status = "ok" /\ ret.value = <<>>)

\* C5: with a query in another language than 'en' and no translator, search
\* scores the terms of the original query text, and the record it appends
\* has the original text as query and no translated_query.
C5_NoTranslator ==
    (ret.op = "search" /\ ret.query_lang # "en" /\ translator = "None") =>
        /\ ret.query_terms = tokenize(ret.query)
        /\ ret.status = "ok" =>
              /\ LastRecord.query = ret.query
              /\ LastRecord.translated_query = "None"

\* such a search has returned documents
C5_Witness ==
    /\ Returned
    /\ ret.query_lang # "en"
    /\ translator = "None"
    /\ ret.value # <<>>
    /\ LastRecord.translated_query = "None"

\* C6: when the translator raises during the search of a system whose
\* models are registered, the search does not fail: it scores the original
\* query text, returns what the search of that text without translation
\* returns, and appends its record.
C6_TranslatorRaises ==
    (/\ ret.op = "search"
     /\ ret.query_lang # "en"
     /\ translator # "None"
     /\ ret.tr.raises
     /\ "bm25" \in DOMAIN retrieval_models) =>
        /\ ret.status = "ok"
        /\ ret.query_terms = tokenize(ret.query)
        /\ ret.value = ScoredValue(ret.query, ret.method, ret.top_k)
        /\ search_history # <<>>
        /\ LastRecord.query = ret.query
        /\ LastRecord.query_language = ret.query_lang
        /\ LastRecord.num_results = Len(ret.value)

\* the translator has raised in a search that returned documents
C6_Witness ==
    /\ Returned
    /\ ret.query_lang # "en"
    /\ translator # "None"
    /\ ret.tr.raises
    /\ ret.value # <<>>

Built == builds = 1 /\ ret.op \in {"build_index", "scrape_and_index"}

RECURSIVE SumLengths(_)
SumLengths(S) ==
    IF S = {} THEN 0
    ELSE LET d == CHOOSE x \in S : TRUE
         IN index.doc_lengths[d] + SumLengths(S \ {d})

\* the sum of the term frequencies a posting list stores for the documents
\* of D, from position k on
RECURSIVE SumTf(_, _, _)
SumTf(postings, D, k) ==
    IF k > Len(postings) THEN 0
    ELSE (IF postings[k][1] \in D THEN postings[k][2] ELSE 0)
           + SumTf(postings, D, k + 1)

\* the sum over the terms of T of the term frequencies stored for document
\* d: the number of pairs <<term, j>> with j up to that term frequency
SumTermsTf(T, d) ==
    Cardinality(UNION {{<<x, j>> : j \in 1..SumTf(index.index[x], {d}, 1)} : x \in T})

\* the token sequences of the documents of the batch build_index was given
BatchTokens ==
    [k \in 1..Len(batch) |-> tokenize(batch[k].title \o " " \o batch[k].body)]

\* C7: after build_index, avg_doc_length is (sum of doc_lengths) / total_docs
\* when total_docs > 0 and 0 when total_docs = 0, and total_docs is the
\* number of entries of doc_lengths and of doc_metadata.
C7_AvgDocLength ==
    builds = 1 =>
        LET avg == index.avg_doc_length
            total == SumLengths(DOMAIN index.doc_lengths)
        IN /\ avg[2] > 0
           /\ index.total_docs > 0 => avg[1] * index.total_docs = total * avg[2]
           /\ index.total_docs = 0 => avg[1] = 0
           /\ index.total_docs = Cardinality(DOMAIN index.doc_lengths)
           /\ index.total_docs = Cardinality(DOMAIN index.doc_metadata)

\* an index of two documents of different lengths, its average no integer
C7_Witness ==
    /\ builds = 1
    /\ index.total_docs = 2
    /\ index.doc_lengths[0] # index.doc_lengths[1]
    /\ index.avg_doc_length[1] % index.avg_doc_length[2] # 0

\* C8: in a built index every posting list has strictly ascending document
\* ids and term frequencies >= 1, and the document ids are exactly
\* 0..total_docs-1, in input order.
C8_Postings ==
    builds = 1 =>
        /\ \A term \in DOMAIN index.index :
              LET p == index.index[term]
              IN /\ \A k \in 1..(Len(p) - 1) : p[k][1] < p[k + 1][1]
                 /\ \A k \in 1..Len(p) : p[k][2] >= 1
        /\ DOMAIN index.doc_lengths = 0..(index.total_docs - 1)
        /\ DOMAIN index.doc_metadata = 0..(index.total_docs - 1)
        /\ \A d \in DOMAIN index.doc_metadata :
              /\ index.doc_metadata[d].title = batch[d + 1].title
              /\ index.doc_metadata[d].url = batch[d + 1].url

\* a term of two documents, in one of them more than once
C8_Witness ==
    /\ builds = 1
    /\ \E term \in DOMAIN index.index :
          /\ Len(index.index[term]) >= 2
          /\ \E k \in 1..Len(index.index[term]) : index.index[term][k][2] >= 2

DocLengthsOf(toks) ==
    /\ DOMAIN index.doc_lengths = {k - 1 : k \in 1..Len(toks)}
    /\ \A d \in DOMAIN index.doc_lengths :
          /\ SumTermsTf(DOMAIN index.index, d) = index.doc_lengths[d]
          /\ index.doc_lengths[d] = Len(toks[d + 1])

\* C9: in a built index, for every document id d, the term frequencies
\* stored for d over all terms sum to doc_lengths[d], the number of tokens
\* of title + ' ' + body of document d.
C9_DocLength == Built => DocLengthsOf(BatchTokens)

\* a document with a term more than once and another term
C9_Witness ==
    /\ Built
    /\ \E d \in DOMAIN index.doc_lengths :
          /\ index.doc_lengths[d] >= 3
          /\ \E term \in DOMAIN index.index : SumTf(index.index[term], {d}, 1) >= 2
          /\ \E term \in DOMAIN index.index : SumTf(index.index[term], {d}, 1) = 1

\* the number of tokens that are the term in the token sequences toks[k..]
RECURSIVE Occurrences(_, _, _)
Occurrences(toks, term, k) ==
    IF k > Len(toks) THEN 0
    ELSE Cardinality({i \in 1..Len(toks[k]) : toks[k][i] = term})
           + Occurrences(toks, term, k + 1)

TermTotal(toks, term, postings) ==
    /\ SumTf(postings, {postings[k][1] : k \in 1..Len(postings)}, 1)
          = Occurrences(toks, term, 1)
    /\ term \in index.vocabulary <=> Occurrences(toks, term, 1) >= 1

TermTotalsOf(toks) ==
    \A term \in UNION {{toks[k][i] : i \in 1..Len(toks[k])} : k \in 1..Len(toks)}
                  \cup index.vocabulary \cup DOMAIN index.index \cup {"zebra"} :
        TermTotal(toks, term, get_postings(index, term))

\* C10: in a built index, for every term t the term frequencies of
\* postings(t) sum to the number of occurrences of t in the tokenized
\* corpus, and t is in the vocabulary exactly when it occurs at least once.
C10_TermTotals == Built => TermTotalsOf(BatchTokens)

\* a term that occurs three times, in two documents, after another term
C10_Witness ==
    /\ Built
    /\ \E term \in index.vocabulary :
          /\ Len(index.index[term]) = 2
          /\ SumTf(index.index[term], {0, 1}, 1) = 3
          /\ term # BatchTokens[1][1]

LastOf(s) == s[Len(s)]

IsPrefix(s, u) == Len(s) <= Len(u) /\ SubSeq(u, 1, Len(s)) = s

\* C11: the search history is append-only. Every step leaves the records
\* already there in place and in order; a search that returns appends exactly
\* one record, its own, at the end; an evaluation that returns appends one
\* record per method per test query; an export appends none; and the length
\* of the history is the number of searches that have returned.
C11_AppendOnly ==
    [][/\ IsPrefix(search_history, search_history')
       /\ Len(search_history') = Len(calls')
       /\ (ret'.op = "search" /\ ret'.status = "ok") =>
             /\ Len(search_history') = Len(search_history) + 1
             /\ LastOf(search_history').query = ret'.query
             /\ LastOf(search_history').method = ret'.method
             /\ LastOf(search_history').query_language = ret'.query_lang
             /\ LastOf(search_history').num_results = Len(ret'.value)
       /\ (ret'.op = "search" /\ ret'.status # "ok") =>
             search_history' = search_history
       /\ (ret'.op = "evaluate_retrieval" /\ ret'.status = "ok") =>
             Len(search_history') = Len(search_history) + 2 * Len(ret'.test_queries)
       /\ ret'.op = "save_complete_data" => search_history' = search_history
      ]_vars

\* an evaluation has returned after a search, its records behind that one
C11_Witness ==
    /\ ret.op = "evaluate_retrieval"
    /\ ret.status = "ok"
    /\ Len(ret.test_queries) = 1
    /\ Len(search_history) = 3
    /\ search_history[1].method = "cosine"
    /\ search_history[2].method = "tfidf"
    /\ search_history[3].method = "bm25"

\* C12: a search leaves the index (postings, vocabulary, doc_lengths,
\* doc_metadata, total_docs, avg_doc_length) and the document list as they
\* were, with either model and for query terms that are not in the index.
C12_SearchReadOnly ==
    [][ret'.op = "search" =>
          /\ index'.index = index.index
          /\ DOMAIN index'.index = DOMAIN index.index
          /\ index'.vocabulary = index.vocabulary
          /\ index'.doc_lengths = index.doc_lengths
          /\ index'.doc_metadata = index.doc_metadata
          /\ index'.total_docs = index.total_docs
          /\ index'.avg_doc_length = index.avg_doc_length
          /\ documents' = documents
      ]_vars

\* a search has returned documents for a query with a term the index does
\* not hold
C12_Witness ==
    /\ Returned
    /\ ret.value # <<>>
    /\ \E i \in 1..Len(ret.query_terms) : ret.query_terms[i] \notin DOMAIN index.index
    /\ \E i \in 1..Len(ret.query_terms) : ret.query_terms[i] \in DOMAIN index.index

\* the query search works with in a call of the log
WorkingQuery(c) ==
    IF c.query_lang # "en" THEN translate_query(translator, c.query, c.tr) ELSE c.query

SameArguments(c, d) ==
    /\ c.query = d.query
    /\ c.method = d.method
    /\ c.top_k = d.top_k
    /\ c.query_lang = d.query_lang

\* C14 as claimed: two searches with the same query, method, top_k and query
\* language against the same built index return the same list of
\* (doc_id, score), whatever happened in between.
C14_SameArgumentsSameResults ==
    \A i, j \in 1..Len(calls) :
        SameArguments(calls[i], calls[j]) => calls[i].value = calls[j].value

\* C14, amended: two searches with the same query, method, top_k and query
\* language, for which the translation step gives the same working query
\* (always so for query language 'en' and without a translator), return the
\* same list of (doc_id, score) in the same order, whatever searches,
\* evaluations and exports happened in between.
C14_SameWorkingQuerySameResults ==
    \A i, j \in 1..Len(calls) :
        (SameArguments(calls[i], calls[j])
           /\ WorkingQuery(calls[i]) = WorkingQuery(calls[j]))
        => calls[i].value = calls[j].value

\* the same search has returned documents twice, another search in between
C14_Witness ==
    /\ Len(calls) = 3
    /\ SameArguments(calls[1], calls[3])
    /\ WorkingQuery(calls[1]) = WorkingQuery(calls[3])
    /\ calls[1].value # <<>>
    /\ ~SameArguments(calls[1], calls[2])
    /\ Len(search_history) = 3

\* C15: an export leaves the index, the document list and the search
\* history as they were, and the search_history it exports is the whole
\* history, in the order of the appends.
C15_ExportReadOnly ==
    [][ret'.op = "save_complete_data" =>
          /\ index' = index
          /\ documents' = documents
          /\ search_history' = search_history
          /\ ret'.value.search_history = search_history
      ]_vars

\* an export of a history of more than one record
C15_Witness ==
    /\ ret.op = "save_complete_data"
    /\ Len(search_history) >= 2
    /\ search_history[1] # search_history[2]
    /\ Len(ret.value.search_history) = Len(search_history)

\* C16: the exported structure, read back, has the total_docs of the index,
\* as many vocabulary entries as the vocabulary has terms, and for every
\* term the posting list of the index (the same document ids and term
\* frequencies in the same order); its total_postings is the sum of the
\* lengths of the posting lists and its vocabulary_size the number of
\* indexed terms.
C16_ExportRoundTrip ==
    ret.op = "save_complete_data" =>
        LET inv == ret.value.inverted_index
            stats == ret.value.index_statistics
        IN /\ inv.total_docs = index.total_docs
           /\ Len(inv.vocabulary) = Cardinality(index.vocabulary)
           /\ {inv.vocabulary[k] : k \in 1..Len(inv.vocabulary)} = index.vocabulary
           /\ DOMAIN inv.index = DOMAIN index.index
           /\ \A term \in DOMAIN index.index :
                 /\ Len(inv.index[term]) = Len(index.index[term])
                 /\ \A k \in 1..Len(index.index[term]) :
                       /\ inv.index[term][k][1] = index.index[term][k][1]
                       /\ inv.index[term][k][2] = index.index[term][k][2]
           /\ stats.total_postings =
                 Cardinality(UNION {{<<term, k>> : k \in 1..Len(index.index[term])} :
                                      term \in DOMAIN index.index})
           /\ stats.vocabulary_size = Cardinality(DOMAIN index.index)
           /\ stats.total_documents = index.total_docs

\* an export of an index with a term of two documents, twice in one of them
C16_Witness ==
    /\ ret.op = "save_complete_data"
    /\ \E term \in DOMAIN ret.value.inverted_index.index :
          /\ Len(ret.value.inverted_index.index[term]) = 2
          /\ ret.value.inverted_index.index[term][2][2] = 2
    /\ ret.value.index_statistics.total_postings > ret.value.index_statistics.vocabulary_size

\* C17: Scenario A. On the corpus 'cat dog', 'cat cat mouse',
\* 'dog mouse mouse' a BM25 search for 'cat' with the default parameters
\* and top_k >= 2 returns documents 1 and 0 in that order, document 1 with
\* the strictly higher score, and not document 2.
C17_ScenarioA ==
    (documents = ScenarioA /\ retrieval_models = RegisteredModels) =>
        /\ \A i \in 1..Len(calls) :
              (/\ calls[i].query = "cat"
               /\ calls[i].method = "bm25"
               /\ calls[i].query_lang = "en"
               /\ calls[i].top_k >= 2) =>
                  /\ Len(calls[i].value) = 2
                  /\ calls[i].value[1][1] = 1
                  /\ calls[i].value[2][1] = 0
                  /\ calls[i].value[1][2] > calls[i].value[2][2]
                  /\ calls[i].value[2][2] > 0
        /\ (ret.op = "search" /\ ret.query = "cat" /\ ret.method = "bm25"
              /\ ret.query_lang = "en" /\ ret.top_k >= 2) => ret.status = "ok"
        /\ score_document(RegisteredModels.bm25, index, <<"cat">>, 2) = 0

\* the search of Scenario A has returned
C17_Witness ==
    /\ documents = ScenarioA
    /\ Returned
    /\ ret.query = "cat" /\ ret.method = "bm25" /\ ret.query_lang = "en"
    /\ ret.top_k = 2
    /\ Len(ret.value) = 2
    /\ RegisteredModels.bm25.k1 = <<3, 2>> /\ RegisteredModels.bm25.b = <<3, 4>>

\* what the search of thread t returns when it runs alone
Alone(t) ==
    SearchOutcome(threads[t].call.query, threads[t].call.method,
                  threads[t].call.top_k, threads[t].call.query_lang, threads[t].tr)

Appended == {t \in Threads : threads[t].pc \in {"return", "done"}}

Finished == \A t \in Threads : threads[t].pc \in {"idle", "done"}

\* C13: with searches running concurrently on a built system, in every
\* interleaving the index stays the one built from the documents, every
\* search has the result and the record it has when it runs alone, the
\* history has one record per search that has appended, and once all
\* searches have finished the history holds exactly the records of the
\* searches, each whole and once, in some order.
C13_ConcurrentSearches ==
    builds = 1 =>
        /\ index = build_index(NewIndex, documents)
        /\ \A t \in Threads :
              threads[t].pc \in {"append", "return", "done"} =>
                 /\ threads[t].out.value = Alone(t).value
                 /\ threads[t].out.record = Alone(t).record
        /\ \A t \in Threads : threads[t].pc # "raised"
        /\ Len(search_history) = Cardinality(Appended)
        /\ Finished =>
              \E p \in [Appended -> 1..Len(search_history)] :
                 /\ \A t, u \in Appended : t # u => p[t] # p[u]
                 /\ \A t \in Appended : search_history[p[t]] = Alone(t).record

\* two searches have run concurrently and finished, the record of the
\* second thread in front of the record of the first
C13_Witness ==
    /\ Finished
    /\ Appended = Threads
    /\ Len(search_history) >= 2
    /\ search_history[1] # search_history[2]
    /\ search_history[1] = threads[2].out.record
    /\ search_history[2] = threads[1].out.record
    /\ calls[Len(calls)].query = threads[1].call.query
    /\ threads[1].out.value # <<>>

\* the documents of the batch whose title and body give no token
NoTokens(doc) == tokenize(doc.title \o " " \o doc.body) = <<>>

\* C18: build_index does not raise for a batch of documents that have title
\* and body, and a document of the batch without tokens has the id of its
\* position, a doc_lengths entry of 0 and a metadata entry, is in no
\* posting list and counts in total_docs.
C18_BuildNeverRaises ==
    (/\ ret.op = "build_index"
     /\ builds = 1
     /\ \A k \in 1..Len(batch) : {"title", "body"} \subseteq DOMAIN batch[k]) =>
        /\ ret.status = "ok"
        /\ index.total_docs = Len(batch)
        /\ \A k \in 1..Len(batch) :
              NoTokens(batch[k]) =>
                 /\ (k - 1) \in DOMAIN index.doc_lengths
                 /\ index.doc_lengths[k - 1] = 0
                 /\ (k - 1) \in DOMAIN index.doc_metadata
                 /\ \A term \in DOMAIN index.index :
                       \A i \in 1..Len(index.index[term]) :
                          index.index[term][i][1] # k - 1

\* C19: a build_index call that does not complete leaves the index as it
\* was before the call.
C19_BuildAllOrNothing ==
    [][(ret'.op = "build_index" /\ ret'.status = "KeyError") => index' = index]_vars

\* a text of white space, punctuation and words of at most two characters:
\* no three letters or digits in a row (texts with an underscore, which \w
\* holds, are left aside)
OnlyShortWords(text) ==
    /\ \A i \in 1..Len(text) : Ch(text, i) # "_"
    /\ \A i \in 1..(Len(text) - 2) :
          \E j \in i..(i + 2) : Ch(text, j) \notin Letters \cup DigitChars

\* C20: tokenize returns the empty sequence, and does not raise, for the
\* empty text, for a missing text (None), and for a text of white space,
\* punctuation and words of at most two characters.
C20_TokenizeEmpty ==
    (ret.op = "tokenize" /\ (ret.arg.none \/ OnlyShortWords(ret.arg.text))) =>
        /\ ret.out.status = "ok"
        /\ ret.out.value = <<>>

\* the calls of the evaluation that has just returned: the last ones of the log
EvalCallOf(k, j) ==
    calls[Len(calls) - Len(EvalMethods) * Len(ret.test_queries)
             + (k - 1) * Len(ret.test_queries) + j]

\* C21: evaluate_retrieval runs every test query once through search for
\* 'tfidf' and for 'bm25' with top_k = 10; for each of the two,
\* queries_tested is the number of test queries, each query_result has
\* num_results <= 10 and top_3_docs the first min(3, num_results) results of
\* its search, in rank order; with no test query it returns avg_latency 0
\* for each model, without error.
C21_Evaluation ==
    ret.op = "evaluate_retrieval" =>
        LET n == Len(ret.test_queries)
        IN /\ (n = 0 \/ retrieval_models # <<>>) => ret.status = "ok"
           /\ ret.status = "ok" =>
                 /\ ret.returned = 2 * n
                 /\ DOMAIN ret.value = {"tfidf", "bm25"}
                 /\ \A k \in 1..2 :
                       LET m == <<"tfidf", "bm25">>[k]
                           stats == ret.value[m]
                       IN /\ stats.method = m
                          /\ stats.queries_tested = n
                          /\ Len(stats.query_results) = n
                          /\ n = 0 => stats.avg_latency = <<0, 1>>
                          /\ \A j \in 1..n :
                                LET c == EvalCallOf(k, j)
                                    qr == stats.query_results[j]
                                    top == Min(3, qr.num_results)
                                IN /\ c.method = m
                                   /\ c.top_k = 10
                                   /\ c.query = ret.test_queries[j].query
                                   /\ qr.query = c.query
                                   /\ qr.num_results = Len(c.value)
                                   /\ qr.num_results <= 10
                                   /\ Len(qr.top_3_docs) = top
                                   /\ \A i \in 1..top :
                                         /\ qr.top_3_docs[i].score = c.value[i][2]
                                         /\ qr.top_3_docs[i].title =
                                               index.doc_metadata[c.value[i][1]].title

\* an evaluation of a corpus with more than ten documents for its query: ten
\* results, of which the first three are kept
C21_Witness ==
    /\ ret.op = "evaluate_retrieval"
    /\ ret.status = "ok"
    /\ index.total_docs > 10
    /\ \E j \in 1..Len(ret.test_queries) :
          /\ ret.value["bm25"].query_results[j].num_results = 10
          /\ Len(ret.value["bm25"].query_results[j].top_3_docs) = 3
          /\ ret.value["tfidf"].query_results[j].num_results = 10

\* the terms of a token sequence
TermSet(tokens) == {tokens[i] : i \in 1..Len(tokens)}

\* C22: after any sequence of build_index calls on one InvertedIndex,
\* get_doc_freq(term) is the number of documents of the batch built last
\* that hold the term, and it is at most total_docs.
C22_DocFreqOfLastBatch ==
    (ret.op = "build_index" /\ ret.status = "ok") =>
        \A term \in DOMAIN index.index
                      \cup UNION {TermSet(BatchTokens[k]) : k \in 1..Len(batch)}
                      \cup {"zebra"} :
            /\ get_doc_freq(index, term) =
                  Cardinality({k \in 1..Len(batch) : term \in TermSet(BatchTokens[k])})
            /\ get_doc_freq(index, term) <= index.total_docs

\* C23: BM25 scoring does not divide by zero: in every index state with
\* avg_doc_length = 0, BM25Retrieval.score_document returns 0, without an
\* exception, for every document id and every sequence of query terms.
C23_NoDivisionByZero ==
    (ret.op = "score_document" /\ index.avg_doc_length[1] = 0) =>
        /\ ret.status = "ok"
        /\ ret.value = 0

\* C24: the translation step of search is bounded by a timeout: when the
\* translator does not respond, the search still completes in the end, with
\* the query as it was given.
C24_TranslationBounded ==
    \A t \in Threads :
        (threads[t].pc = "translate" /\ threads[t].tr = NoResponse)
            ~> (threads[t].pc = "done" /\ threads[t].working = threads[t].call.query)

\* the maximal runs of letters and digits of a text, in the order of the text
AlnumWords(text) ==
    LET n == Len(text)
        sep == [i \in 0..(n + 1) |->
                   i = 0 \/ i = n + 1 \/ Ch(text, i) \notin Letters \cup DigitChars]
        starts == {i \in 1..n : ~sep[i] /\ sep[i - 1]}
        ends == {i \in 1..n : ~sep[i] /\ sep[i + 1]}
    IN [j \in 1..Cardinality(starts) |->
          SubSeq(text, CHOOSE s \in starts : Cardinality({r \in starts : r <= s}) = j,
                       CHOOSE e \in ends : Cardinality({r \in ends : r <= e}) = j)]

\* C25: every token tokenize returns is lower-case, has at least three
\* characters and holds letters and digits only, every other character that
\* is not white space, the underscore too, being a separator; the tokens
\* are in the order of the text.
C25_TokensAlphanumeric ==
    (ret.op = "tokenize" /\ ret.out.status = "ok") =>
        LET tokens == ret.out.value
        IN /\ \A k \in 1..Len(tokens) :
                 /\ Len(tokens[k]) >= 3
                 /\ \A i \in 1..Len(tokens[k]) :
                       Ch(tokens[k], i) \in
                          {Ch(LowerLetters, j) : j \in 1..Len(LowerLetters)} \cup DigitChars
           /\ tokens = SelectSeq(AlnumWords(Lower(ret.arg.text)), LAMBDA w : Len(w) >= 3)

\* C26: the retrieval-model section of the export gives, for BM25, the k1
\* and b bound in the BM25 model the system searches with, whatever k1 and b
\* that model was constructed with.
C26_ExportedParameters ==
    (ret.op = "save_complete_data" /\ "bm25" \in DOMAIN retrieval_models) =>
        /\ ret.value.retrieval_models.bm25.parameters.k1 = retrieval_models.bm25.k1
        /\ ret.value.retrieval_models.bm25.parameters.b = retrieval_models.bm25.b

HoldingDocs(toks, terms) ==
    {d \in 0..(Len(toks) - 1) : \E i \in 1..Len(terms) : terms[i] \in TermSet(toks[d + 1])}

\* the score is positive, under both models, for exactly these documents
PositiveExactlyFor(toks, terms) ==
    \A d \in 0..(Len(toks) - 1) : \A m \in {"tfidf", "bm25"} :
        score_document(RegisteredModels[m], index, terms, d) > 0
            <=> d \in HoldingDocs(toks, terms)

ValueIds(c) == {c.value[i][1] : i \in 1..Len(c.value)}

SamePositiveSet(toks) ==
    /\ \A terms \in QueryTermSeqs : PositiveExactlyFor(toks, terms)
    /\ \A i \in 1..Len(calls) :
          (calls[i].method \in {"tfidf", "bm25"} /\ calls[i].top_k >= index.total_docs) =>
              /\ PositiveExactlyFor(toks, tokenize(WorkingQuery(calls[i])))
              /\ ValueIds(calls[i]) = HoldingDocs(toks, tokenize(WorkingQuery(calls[i])))
              /\ \A j \in 1..Len(calls) :
                    (/\ calls[j].method \in {"tfidf", "bm25"}
                     /\ calls[j].top_k >= index.total_docs
                     /\ WorkingQuery(calls[j]) = WorkingQuery(calls[i]))
                    => ValueIds(calls[j]) = ValueIds(calls[i])

OutcomeWithMethod(m) ==
    SearchOutcome(ret.query, m, ret.top_k, ret.query_lang, ret.tr)

\* C29: a search whose method is not the name of a registered model
\* ('tfidf', 'bm25') is scored with BM25: it returns what the same search
\* with method 'bm25' returns, and the record appended to search_history
\* has the method as the caller gave it.
C29_UnknownMethodIsBM25 ==
    (Returned /\ ret.method \notin {"tfidf", "bm25"}) =>
        /\ ret.value = OutcomeWithMethod("bm25").value
        /\ LastRecord.results = OutcomeWithMethod("bm25").record.results
        /\ LastRecord.method = ret.method

\* a search with method 'cosine' has returned two documents, which the
\* 'tfidf' search scores otherwise
C29_Witness ==
    /\ Returned
    /\ ret.method = "cosine"
    /\ Len(ret.value) = 2
    /\ LastRecord.method = "cosine"
    /\ ret.value # OutcomeWithMethod("tfidf").value

\* C30: a search issued before scrape_and_index has built the index and
\* registered the retrieval models fails with an error and appends no
\* record to search_history; no search returns results computed from an
\* index that is not completely built.
C30_NoSearchBeforeBuilt ==
    /\ threads[1].pc # "done" =>
          /\ search_history = <<>>
          /\ calls = <<>>
          /\ ret.op = "search" => ret.status = "KeyError"
    /\ Returned =>
          /\ threads[1].pc = "done"
          /\ "bm25" \in DOMAIN retrieval_models
          /\ index = build_index(NewIndex, documents)

\* a search has failed while the index holds the postings of a part of the
\* documents only
C30_Witness ==
    /\ threads[1].pc = "indexing"
    /\ threads[1].k > 1
    /\ threads[1].k <= Len(documents)
    /\ index.index # <<>>
    /\ ret.op = "search"
    /\ ret.status = "KeyError"
    /\ search_history = <<>>
=============================================================================
